---- MODULE Spec2Model ----
(***************************************************************************)
(* AnyioTyper: the synchronous/asynchronous bridge (AnyioTyper._wrap) and  *)
(* the registration facade (anyio_command, anyio_callback) of              *)
(* src/src/anyio_typer/__init__.py, with the handler of                    *)
(* src/tests/test_execution.py.                                            *)
(*                                                                         *)
(* Python objects are modelled by value where they are immutable (strings, *)
(* tuples, function metadata) and by reference where they are mutable: an  *)
(* options dict is a reference into `heap`, because _wrap stores the dict  *)
(* object it is handed in the closure of sync_func.                        *)
(***************************************************************************)
EXTENDS Integers, Sequences, FiniteSets, TLC

VARIABLES
    heap,               \* dict object -> its current contents
    registered,         \* what the facade handed to the dispatcher, in order
    registrationError,  \* exception type raised by the last decorator call
    call,               \* the invocation in progress (position of sync_func)
    loopCount,          \* event loops created so far (loop ids are 1..loopCount)
    openLoops           \* event loops created and not yet closed

vars == <<heap, registered, registrationError, call, loopCount, openLoops>>

----------------------------------------------------------------------------
(* Bounds of the model. *)

MaxRegistrations == 2

MaxLoops == 2

----------------------------------------------------------------------------
(* Values. *)

None == "None"

\* A dict of backend options, by value: a set of <<key, value>> pairs.
EmptyDict == {}

UseUvloop == {<<"use_uvloop", "True">>}

OptionMaps == {EmptyDict, UseUvloop}

\* Backend names: the two the docstring of anyio_command names, and one the
\* runtime does not know.
Recognized == {"asyncio", "trio"}

BackendNames == Recognized \cup {"curio"}

\* Dict objects.  Each decorator owns one default dict, created once when the
\* `def` is executed (the `options: dict = {}` default); the caller owns the
\* dicts it builds itself.
DefaultOptions(entry) == [site |-> entry, n |-> 0]

CallerDicts == {[site |-> "caller", n |-> 1]}

NoDict == [site |-> None, n |-> 0]

Entries == {"anyio_command", "anyio_callback"}

\* Keyword arguments of a call, by value.
NoKwargs == {}

\* The arguments the dispatcher calls a command with: typer passes the
\* parsed options by keyword (--name morty arrives as name="Morty"); a
\* direct call may also pass them by position.
ArgTuples == {<< >>, <<"Rick">>}

KwargMaps == {NoKwargs, {<<"name", "Morty">>}}

----------------------------------------------------------------------------
(* Handlers: the asynchronous functions the application author writes. *)

Handlers == {"hello", "fetch"}

Empty == "<empty>"

\* The declared parameters of each handler: (name, annotation, default).
Parameters(F) ==
    IF F = "hello"
    THEN << [name |-> "name", annotation |-> "User", default |-> "Rick"] >>
    ELSE << [name |-> "name", annotation |-> "str", default |-> Empty] >>

Docstring(F) == IF F = "hello" THEN None ELSE "Fetch a user."

NoClosure == [func |-> None, backend |-> None, options |-> NoDict]

\* __annotations__ of a function whose declared parameters are ps.
AnnotationsOf(ps) == {<<ps[i].name, ps[i].annotation>> : i \in DOMAIN ps}

\* The function object of handler F.
HandlerObject(F) ==
    [kind            |-> "async",
     __name__        |-> F,
     __doc__         |-> Docstring(F),
     __annotations__ |-> AnnotationsOf(Parameters(F)),
     parameters      |-> Parameters(F),
     __wrapped__     |-> None,
     closure         |-> NoClosure]

\* The result of a call: a returned value or a raised exception, with what
\* was printed on the way.
Returned(v, out) ==
    [status |-> "return", value |-> v, type |-> None, message |-> None,
     printed |-> out]

Raised(t, m) ==
    [status |-> "raise", value |-> None, type |-> t, message |-> m,
     printed |-> ""]

NoOutcome ==
    [status |-> "pending", value |-> None, type |-> None, message |-> None,
     printed |-> ""]

HasKey(kwargs, k) == \E p \in kwargs : p[1] = k

Lookup(kwargs, k) == (CHOOSE p \in kwargs : p[1] = k)[2]

\* Python's binding of (*args, **kwargs) to the single parameter `name`.
Bind(F, args, kwargs) ==
    IF Len(args) > 0 /\ HasKey(kwargs, "name")
    THEN Raised("TypeError", "got multiple values for argument 'name'")
    ELSE IF Len(args) > 0 THEN Returned(args[1], "")
    ELSE IF HasKey(kwargs, "name") THEN Returned(Lookup(kwargs, "name"), "")
    ELSE IF Parameters(F)[1].default # Empty
         THEN Returned(Parameters(F)[1].default, "")
    ELSE Raised("TypeError", "missing 1 required positional argument: 'name'")

\* The body of each handler, run with its parameter bound.
\*   hello: prints the greeting and returns None    (tests/test_execution.py)
\*   fetch: returns a value computed from its argument, or raises
Body(F, name) ==
    IF F = "hello" THEN Returned(None, "Hello " \o name \o "!")
    ELSE IF name = "Morty" THEN Returned("user:" \o name, "")
    ELSE Raised("ValueError", "unknown user " \o name)

\* Awaiting F(*args, **kwargs) directly.
Await(F, args, kwargs) ==
    LET b == Bind(F, args, kwargs)
    IN  IF b.status = "raise" THEN b ELSE Body(F, b.value)

ValidArguments(F, args, kwargs) == Bind(F, args, kwargs).status = "return"

----------------------------------------------------------------------------
(* AnyioTyper._wrap: the bridge constructor. *)

\* def sync_func(*args: P.args, **kwargs: P.kwargs) -> T, closed over the
\* func, backend and options of the enclosing _wrap call.  `options` is the
\* dict object itself, not a copy of it.
SyncFuncDef(func, backend, options) ==
    [kind            |-> "sync",
     __name__        |-> "sync_func",
     __doc__         |-> None,
     __annotations__ |-> {<<"args", "P.args">>, <<"kwargs", "P.kwargs">>},
     parameters      |-> << [name |-> "args", annotation |-> "P.args",
                             default |-> Empty],
                            [name |-> "kwargs", annotation |-> "P.kwargs",
                             default |-> Empty] >>,
     __wrapped__     |-> None,
     closure         |-> [func |-> func, backend |-> backend,
                          options |-> options]]

\* functools.wraps(func): copies __name__, __doc__ and __annotations__ of
\* func onto the wrapper and sets __wrapped__.
wraps(func, wrapper) ==
    [wrapper EXCEPT !.__name__        = HandlerObject(func).__name__,
                    !.__doc__         = HandlerObject(func).__doc__,
                    !.__annotations__ = HandlerObject(func).__annotations__,
                    !.__wrapped__     = func]

\* A bridge that forgets @wraps.
UnwrappedWrap(func, backend, options) == SyncFuncDef(func, backend, options)

_wrap(func, backend, options) ==
    wraps(func, SyncFuncDef(func, backend, options))

\* inspect.signature: follows __wrapped__ to the wrapped function.
Signature(f) ==
    IF f.__wrapped__ # None THEN HandlerObject(f.__wrapped__).parameters
    ELSE f.parameters

\* The parameters the dispatcher declares for a registered function: names
\* and defaults from its signature, types from its type hints.
DeclaredParameters(f) ==
    LET sig == Signature(f)
        Hint(p) == IF \E a \in f.__annotations__ : a[1] = p.name
                   THEN (CHOOSE a \in f.__annotations__ : a[1] = p.name)[2]
                   ELSE p.annotation
    IN  [i \in DOMAIN sig |->
            [name |-> sig[i].name, type |-> Hint(sig[i]),
             default |-> sig[i].default]]

----------------------------------------------------------------------------
(* The registration facade: anyio_command and anyio_callback. *)

\* A decorator that checks the backend name before registering.
ValidatingCommandDecorator(async_func, backend, options) ==
    IF backend \in Recognized
    THEN [registers |-> << [native |-> "command",
                            sync_func |-> _wrap(async_func, backend, options),
                            returned |-> HandlerObject(async_func)] >>,
          raises |-> None]
    ELSE [registers |-> << >>, raises |-> "LookupError"]

\* A decorator that returns the wrapper it registered.
WrapperReturningCommandDecorator(async_func, backend, options) ==
    [registers |-> << [native |-> "command",
                       sync_func |-> _wrap(async_func, backend, options),
                       returned |-> _wrap(async_func, backend, options)] >>,
     raises |-> None]

\* anyio_command(...).decorator: self.command(...)(self._wrap(async_func,
\* backend=backend, options=options)); return async_func
anyio_command_decorator(async_func, backend, options) ==
    [registers |-> << [native |-> "command",
                       sync_func |-> _wrap(async_func, backend, options),
                       returned |-> HandlerObject(async_func)] >>,
     raises |-> None]

\* anyio_callback(...).decorator: self.callback(...)(self._wrap(async_func,
\* backend=backend, options=options)); return async_func
anyio_callback_decorator(async_func, backend, options) ==
    [registers |-> << [native |-> "callback",
                       sync_func |-> _wrap(async_func, backend, options),
                       returned |-> HandlerObject(async_func)] >>,
     raises |-> None]

----------------------------------------------------------------------------
(* Calling the bridge: sync_func, _main and the runtime's blocking run. *)

NoRequest ==
    [backend |-> None, backend_options |-> EmptyDict, func |-> None,
     args |-> << >>, kwargs |-> NoKwargs]

\* A bridge with a path of its own for trio, which takes no keyword
\* arguments for the function it runs.
sync_func_trio_path(g, args, kwargs, h) ==
    [backend         |-> g.closure.backend,
     backend_options |-> h[g.closure.options],
     func            |-> g.closure.func,
     args            |-> args,
     kwargs          |-> IF g.closure.backend = "trio" THEN NoKwargs
                         ELSE kwargs]

\* sync_func(*args, **kwargs): the call
\*   anyio.run(_main, args, kwargs, backend=backend, backend_options=options)
\* it makes, where _main is closed over func.  h is the heap at the time of
\* the call: the options passed are the current contents of the dict object
\* in the closure.
sync_func(g, args, kwargs, h) ==
    [backend         |-> g.closure.backend,
     backend_options |-> h[g.closure.options],
     func            |-> g.closure.func,
     args            |-> args,
     kwargs          |-> kwargs]

\* A _main that passes on the positional arguments only.
_main_drops_kwargs(func, args, kwargs) ==
    [outcome |-> Await(func, args, NoKwargs), awaits |-> 1,
     handler |-> "done"]

\* A _main that calls func and returns the coroutine without awaiting it.
_main_missing_await(func, args, kwargs) ==
    [outcome |-> Returned("<coroutine>", ""), awaits |-> 0,
     handler |-> "pending"]

\* async def _main(args, kwargs): return await func(*args, **kwargs)
\* The result, the number of times func was awaited and the state the
\* handler's coroutine is left in.
_main(func, args, kwargs) ==
    [outcome |-> Await(func, args, kwargs), awaits |-> 1,
     handler |-> "done"]

\* anyio.run's checks before it starts anything: RuntimeError if an event
\* loop is already running in this thread, LookupError if the named backend
\* is not found (the :raises of anyio_command's docstring).
AnyioRunCheck(req, loopRunning) ==
    IF loopRunning
    THEN Raised("RuntimeError", "event loop already running in this thread")
    ELSE IF req.backend \notin Recognized
    THEN Raised("LookupError", "No such backend: " \o req.backend)
    ELSE NoOutcome

\* A bridge that keeps one event loop and runs every call on it.
LoopReused(count) == IF count > 0 THEN 1 ELSE count + 1

\* The event loop a call runs on: anyio.run is called anew by every call of
\* sync_func and makes a new loop; nothing is kept in the closure.
LoopForRun(count) == count + 1

\* A bridge that catches what the run raises and reports a generic failure.
SyncFuncWrapsFailure(o) ==
    IF o.status = "raise" THEN Raised("RuntimeError", "command failed") ELSE o

\* A bridge that catches the runtime's RuntimeError and returns None.
SyncFuncSwallowsRuntimeError(o) ==
    IF o.status = "raise" /\ o.type = "RuntimeError" THEN Returned(None, "")
    ELSE o

\* `return anyio.run(...)`: sync_func returns what the run returns and lets
\* what it raises propagate; there is no try/except around it.
SyncFuncResult(o) == o

\* The process exit code the dispatcher derives: 0 when the command function
\* returns, nonzero when it raises.
ExitCode(o) == IF o.status = "return" THEN 0 ELSE 1

IdleCall ==
    [pc |-> "idle", wrapper |-> 0, args |-> << >>, kwargs |-> NoKwargs,
     loopRunning |-> FALSE, request |-> NoRequest, loop |-> 0, created |-> 0,
     awaits |-> 0, handler |-> "none", outcome |-> NoOutcome]

----------------------------------------------------------------------------
(* The state machine. *)

Init ==
    /\ heap = [d \in {DefaultOptions(e) : e \in Entries} |-> EmptyDict]
    /\ registered = << >>
    /\ registrationError = None
    /\ call = IdleCall
    /\ loopCount = 0
    /\ openLoops = {}

\* The dict objects a caller can pass as `options`: its own, or none, which
\* selects the decorator's default dict.
OptionsArguments(entry) ==
    {DefaultOptions(entry)} \cup (CallerDicts \cap DOMAIN heap)

\* What the dispatcher was handed, logged together with the arguments the
\* decorator was applied with and the value the decorator returned.
Logged(registers, async_func, backend, options) ==
    [k \in DOMAIN registers |->
        [native    |-> registers[k].native,
         sync_func |-> registers[k].sync_func,
         returned  |-> registers[k].returned,
         supplied  |-> [func |-> async_func, backend |-> backend,
                        options |-> options]]]

\* The application builds a dict of backend options.
CallerBuildsDict(d, content) ==
    /\ call.pc = "idle"
    /\ d \in CallerDicts \ DOMAIN heap
    /\ heap' = (d :> content) @@ heap
    /\ UNCHANGED <<registered, registrationError, call, loopCount, openLoops>>

\* The application changes a dict it built (d[k] = v, d.clear(), ...).
CallerMutatesDict(d, content) ==
    /\ call.pc = "idle"
    /\ d \in CallerDicts \cap DOMAIN heap
    /\ content # heap[d]
    /\ heap' = [heap EXCEPT ![d] = content]
    /\ UNCHANGED <<registered, registrationError, call, loopCount, openLoops>>

\* @app.anyio_command(backend=backend, options=options) applied to a handler.
AnyioCommand(async_func, backend, options) ==
    /\ call.pc = "idle"
    /\ Len(registered) < MaxRegistrations
    /\ options \in OptionsArguments("anyio_command")
    /\ LET d == anyio_command_decorator(async_func, backend, options)
       IN  /\ registered' = registered \o
                  Logged(d.registers, async_func, backend, options)
           /\ registrationError' = d.raises
    /\ UNCHANGED <<heap, call, loopCount, openLoops>>

\* @app.anyio_callback(backend=backend, options=options) applied to a handler.
AnyioCallback(async_func, backend, options) ==
    /\ call.pc = "idle"
    /\ Len(registered) < MaxRegistrations
    /\ options \in OptionsArguments("anyio_callback")
    /\ LET d == anyio_callback_decorator(async_func, backend, options)
       IN  /\ registered' = registered \o
                  Logged(d.registers, async_func, backend, options)
           /\ registrationError' = d.raises
    /\ UNCHANGED <<heap, call, loopCount, openLoops>>

\* The dispatcher calls registered function i with (*args, **kwargs), on a
\* thread that has a running event loop or not.  sync_func calls anyio.run,
\* which either raises at once or creates an event loop and starts _main on
\* it; the calling thread is then blocked.
SyncFuncCall(i, args, kwargs, loopRunning) ==
    /\ call.pc = "idle"
    /\ loopCount < MaxLoops
    /\ i \in 1..Len(registered)
    /\ LET req   == sync_func(registered[i].sync_func, args, kwargs, heap)
           check == AnyioRunCheck(req, loopRunning)
           loop  == LoopForRun(loopCount)
           entered == [IdleCall EXCEPT !.wrapper = i, !.args = args,
                           !.kwargs = kwargs, !.loopRunning = loopRunning,
                           !.request = req]
       IN  IF check.status = "raise"
           THEN /\ call' = [entered EXCEPT !.pc = "returned",
                                !.outcome = SyncFuncResult(check)]
                /\ UNCHANGED <<loopCount, openLoops>>
           ELSE /\ call' = [entered EXCEPT !.pc = "running", !.loop = loop,
                                !.created = IF loop > loopCount THEN 1 ELSE 0,
                                !.handler = "pending"]
                /\ loopCount' = IF loop > loopCount THEN loop ELSE loopCount
                /\ openLoops' = openLoops \cup {loop}
    /\ UNCHANGED <<heap, registered, registrationError>>

\* The event loop drives _main, and with it the handler, to its end.
MainCompletes ==
    /\ call.pc = "running"
    /\ LET m == _main(call.request.func, call.request.args,
                      call.request.kwargs)
       IN  call' = [call EXCEPT !.pc = "finished", !.awaits = m.awaits,
                       !.handler = m.handler, !.outcome = m.outcome]
    /\ UNCHANGED <<heap, registered, registrationError, loopCount, openLoops>>

\* anyio.run closes its event loop and returns or raises what _main did;
\* sync_func passes that on to the dispatcher.
AnyioRunReturns ==
    /\ call.pc = "finished"
    /\ openLoops' = openLoops \ {call.loop}
    /\ call' = [call EXCEPT !.pc = "returned",
                    !.outcome = SyncFuncResult(call.outcome)]
    /\ UNCHANGED <<heap, registered, registrationError, loopCount>>

\* The dispatcher finishes the invocation.
DispatcherFinishes ==
    /\ call.pc = "returned"
    /\ call' = IdleCall
    /\ UNCHANGED <<heap, registered, registrationError, loopCount, openLoops>>

Next ==
    \/ \E d \in CallerDicts, c \in OptionMaps : CallerBuildsDict(d, c)
    \/ \E d \in CallerDicts, c \in OptionMaps : CallerMutatesDict(d, c)
    \/ \E F \in Handlers, b \in BackendNames,
          o \in OptionsArguments("anyio_command") : AnyioCommand(F, b, o)
    \/ \E F \in Handlers, b \in BackendNames,
          o \in OptionsArguments("anyio_callback") : AnyioCallback(F, b, o)
    \/ \E i \in 1..Len(registered), a \in ArgTuples, k \in KwargMaps,
          r \in BOOLEAN : SyncFuncCall(i, a, k, r)
    \/ MainCompletes
    \/ AnyioRunReturns
    \/ DispatcherFinishes

Spec == Init /\ [][Next]_vars

----------------------------------------------------------------------------
(* Vocabulary of the properties. *)

\* The handler F the bridge being called was built from, and what awaiting
\* F directly with the arguments of the call gives.
F == registered[call.wrapper].supplied.func

Direct == Await(F, call.args, call.kwargs)

\* The call has come back to the dispatcher.
HasReturned == call.pc = "returned"

\* The preconditions of the runtime's blocking run hold for the call.
Admitted ==
    /\ ~call.loopRunning
    /\ registered[call.wrapper].supplied.backend \in Recognized

\* A whole call of bridge g in one go: the request, the runtime's checks,
\* _main, and what sync_func hands back.
WholeCall(g, args, kwargs, loopRunning, h) ==
    LET req   == sync_func(g, args, kwargs, h)
        check == AnyioRunCheck(req, loopRunning)
    IN  IF check.status = "raise" THEN SyncFuncResult(check)
        ELSE SyncFuncResult(_main(req.func, req.args, req.kwargs).outcome)

\* The same handler registered under another backend configuration and
\* called with the same arguments on the same thread.
OtherRun(backend, options) ==
    LET d == [site |-> "other", n |-> 0]
    IN  WholeCall(_wrap(F, backend, d), call.args, call.kwargs,
                  call.loopRunning, d :> options)

----------------------------------------------------------------------------
(* Properties. *)

\* C1: when G = _wrap(F, backend, options) is called with arguments valid
\* for F, on a thread with no running event loop and with a recognized
\* backend, and awaiting F directly with those arguments returns a value,
\* the call of G returns that same value.
C1_WrapperReturnsAwaitedValue ==
    (/\ HasReturned
     /\ Admitted
     /\ ValidArguments(F, call.args, call.kwargs)
     /\ Direct.status = "return")
    => /\ call.outcome.status = "return"
       /\ call.outcome.value = Direct.value

C1_Witness ==
    /\ HasReturned
    /\ Admitted
    /\ call.kwargs # NoKwargs
    /\ Direct.status = "return"
    /\ call.outcome.value = "user:Morty"

\* C2: when the handler fails while G is running it, the call of G ends
\* by raising that same failure, same type and same message, after the
\* handler was awaited once: nothing wraps, translates, retries or recovers.
C2_HandlerFailurePropagatesUnchanged ==
    (/\ HasReturned
     /\ call.loop # 0
     /\ Direct.status = "raise")
    => /\ call.outcome.status = "raise"
       /\ call.outcome.type = Direct.type
       /\ call.outcome.message = Direct.message
       /\ call.awaits = 1

C2_Witness ==
    /\ HasReturned
    /\ call.loop # 0
    /\ call.outcome.status = "raise"
    /\ call.outcome.type = "ValueError"
    /\ call.outcome.message = "unknown user Rick"

\* C3: a call of G on a thread that already has a running event loop ends
\* by raising RuntimeError; it never creates an event loop, never runs the
\* handler, and is never left blocked inside the run.
C3_RunningLoopIsRejected ==
    (call.pc # "idle" /\ call.loopRunning)
    => /\ HasReturned
       /\ call.outcome.status = "raise"
       /\ call.outcome.type = "RuntimeError"
       /\ call.loop = 0
       /\ call.created = 0
       /\ call.awaits = 0
       /\ call.handler = "none"
       /\ openLoops = {}

C3_Witness ==
    /\ HasReturned
    /\ call.loopRunning
    /\ call.outcome.type = "RuntimeError"
    /\ registered[call.wrapper].supplied.backend = "asyncio"

\* C4: applying anyio_command or anyio_callback never raises, whatever the
\* backend name and options; LookupError appears only as the outcome of a
\* call of a bridge registered with an unrecognized backend, and such a call
\* on a thread with no running loop raises it to the dispatcher as the
\* runtime raised it, without running the handler.
C4_BackendCheckedOnlyAtInvocation ==
    /\ registrationError = None
    /\ \A i \in 1..Len(registered) :
          registered[i].sync_func.closure.backend =
              registered[i].supplied.backend
    /\ call.outcome.type = "LookupError"
          => /\ HasReturned
             /\ registered[call.wrapper].supplied.backend \notin Recognized
    /\ (/\ HasReturned
        /\ ~call.loopRunning
        /\ registered[call.wrapper].supplied.backend \notin Recognized)
          => /\ call.outcome =
                    Raised("LookupError", "No such backend: " \o
                           registered[call.wrapper].supplied.backend)
             /\ call.awaits = 0

C4_Witness ==
    /\ HasReturned
    /\ registered[call.wrapper].native = "command"
    /\ registered[call.wrapper].supplied.backend = "curio"
    /\ call.outcome.type = "LookupError"
    /\ registrationError = None

C6_ConfigurationFixedAtRegistration ==
    [][\A i \in 1..Len(registered) :
          /\ i <= Len(registered')
          /\ registered'[i] = registered[i]
          /\ heap'[registered[i].sync_func.closure.options] =
                 heap[registered[i].sync_func.closure.options]]_vars

\* C7: the decorators return the asynchronous handler they were given, not
\* the bridge, and hand the dispatcher the bridge built from that handler
\* with the backend name and options supplied.
C7_DecoratorReturnsHandlerRegistersBridge ==
    \A i \in 1..Len(registered) :
        LET r == registered[i]
        IN  /\ r.returned = HandlerObject(r.supplied.func)
            /\ r.returned.kind = "async"
            /\ r.returned # r.sync_func
            /\ r.sync_func.kind = "sync"
            /\ r.sync_func.closure = r.supplied

C7_Witness ==
    /\ Len(registered) = 2
    /\ registered[1].native = "command"
    /\ registered[2].native = "callback"
    /\ registered[1].returned = HandlerObject("hello")
    /\ registered[2].supplied.backend = "trio"
    /\ registered[2].supplied.options \in CallerDicts

\* C8: a call of a bridge with a supported backend has the outcome (value
\* returned or failure raised, output printed, exit code) that the same
\* handler has when registered under any other supported backend
\* configuration and called with the same arguments on the same thread.
C8_OutcomeIndependentOfBackend ==
    (HasReturned /\ registered[call.wrapper].supplied.backend \in Recognized)
    => \A b \in Recognized, o \in OptionMaps :
          /\ OtherRun(b, o) = call.outcome
          /\ ExitCode(OtherRun(b, o)) = ExitCode(call.outcome)

C8_Witness ==
    /\ HasReturned
    /\ Admitted
    /\ registered[call.wrapper].supplied.backend = "trio"
    /\ call.request.backend_options = UseUvloop
    /\ call.outcome.printed = "Hello Morty!"
    /\ OtherRun("asyncio", EmptyDict).printed = "Hello Morty!"
    /\ ExitCode(call.outcome) = 0

\* C9: the bridge the facade registers has the name and docstring of the
\* handler, and the parameters the dispatcher declares for it (names,
\* types, defaults) are those it declares for the handler itself.
C9_BridgePresentsHandlerMetadata ==
    \A i \in 1..Len(registered) :
        LET g == registered[i].sync_func
            f == HandlerObject(registered[i].supplied.func)
        IN  /\ g.__name__ = f.__name__
            /\ g.__doc__ = f.__doc__
            /\ DeclaredParameters(g) = DeclaredParameters(f)

C9_Witness ==
    /\ Len(registered) = 2
    /\ registered[1].sync_func.__name__ = "hello"
    /\ registered[2].sync_func.__name__ = "fetch"
    /\ DeclaredParameters(registered[1].sync_func)[1].default = "Rick"
    /\ DeclaredParameters(registered[2].sync_func)[1].type = "str"

\* C10, as stated: when the dispatcher calls a command registered through
\* anyio_command with valid arguments and the handler does not fail on
\* them, the handler has run exactly once and to its end when the bridge
\* returns, and the exit code is 0; the bridge never returns while the
\* handler's coroutine is pending.
C10_CommandRunsOnceExitZero ==
    /\ (/\ HasReturned
        /\ registered[call.wrapper].native = "command"
        /\ ValidArguments(F, call.args, call.kwargs)
        /\ Direct.status = "return")
          => /\ call.awaits = 1
             /\ call.handler = "done"
             /\ ExitCode(call.outcome) = 0
    /\ HasReturned => call.handler # "pending"

\* C10, amended: the same, for a command registered with a recognized
\* backend and called on a thread with no running event loop.
C10_AdmittedCommandRunsOnceExitZero ==
    /\ (/\ HasReturned
        /\ registered[call.wrapper].native = "command"
        /\ Admitted
        /\ ValidArguments(F, call.args, call.kwargs)
        /\ Direct.status = "return")
          => /\ call.awaits = 1
             /\ call.handler = "done"
             /\ ExitCode(call.outcome) = 0
    /\ HasReturned => call.handler # "pending"

C10_Witness ==
    /\ HasReturned
    /\ registered[call.wrapper].native = "command"
    /\ Admitted
    /\ F = "hello"
    /\ call.request.backend = "asyncio"
    /\ call.kwargs = {<<"name", "Morty">>}
    /\ call.awaits = 1
    /\ call.outcome.printed = "Hello Morty!"
    /\ ExitCode(call.outcome) = 0

====
